---------------------------- MODULE Spec2Model ----------------------------
(***************************************************************************)
(* The frame loop of chessrs: GameState (src/src/lib.rs) driven by main    *)
(* (src/src/bin/chessrs.rs).                                               *)
(*                                                                         *)
(* f32 quantities are kept in fixed point, each in the unit that makes the *)
(* program's constants whole numbers:                                      *)
(*   camera_zoom                 1/100          (ZoomOne      = 1.0)       *)
(*   scroll_amount               1/10 line      (LineUnit     = 1.0)       *)
(*   time_factor                 1/600 second   (CellUnit     = 1.0 s)     *)
(*   camera_center, x, y, radius 1/600 cell     (CellUnit     = 1.0 cell)  *)
(*   interpolate_linear's result 1/1500         (ZOOM_MIN     = 2/15)      *)
(*   draw_quad's zoom parameter  1/10           (10 = 1.0, 1 = 0.1)        *)
(*   draw_quad's scaled zoom     1/15000                                   *)
(*   vertex positions            1/9000000  (= 1/600 * 1/15000)            *)
(*   shade                       1/10                                      *)
(* time_last_frame and the clock are in nanoseconds, as in the source.     *)
(***************************************************************************)
EXTENDS Integers, Sequences, FiniteSets

\* ---------------------------------------------------------------- units
ZoomOne == 100
LineUnit == 10
CellUnit == 600

\* ------------------------------------------------------------ constants
CAMERA_SPEED == 4
ZOOM_MIN == 200
ZOOM_MAX == 1200
ZOOM_DEFAULT == 30
ZOOM_STEP == 10
RADIUS == 282

\* --------------------------------------------------------------- bounds
\* Loop iterations a behaviour may start.
MaxFrames == 2
\* Events the window delivers in a behaviour.
MaxEvents == 3
\* Size of the test board.
BoardW == 4
BoardH == 3

\* ---------------------------------------------------------- environment
\* glutin::VirtualKeyCode: the four arrow keys and one key the program
\* never asks about.
Keys == {"Right", "Left", "Up", "Down", "Space"}

\* Scroll amounts of MouseWheel(LineDelta(_, scroll_amount)): one line and
\* fifteen lines, either way.
ScrollAmounts == {-150, -10, 10, 150}

\* glutin::Event as handle_input's match sees it.  "MouseMoved" stands for
\* every event that falls to the `_ => {}` arm.
Events ==
    [type : {"Closed"}, key : {"-"}, amount : {0}]
    \cup [type : {"Pressed", "Released"}, key : Keys, amount : {0}]
    \cup [type : {"MouseWheel"}, key : {"-"}, amount : ScrollAmounts]
    \cup [type : {"MouseMoved"}, key : {"-"}, amount : {0}]

\* The event the iterator has not yet produced.
NoEvent == [type |-> "None", key |-> "-", amount |-> 0]

\* Nanoseconds between two readings of time::precise_time_ns(): 5 ms and a
\* quarter of a second.
FrameDeltas == {5000000, 250000000}

\* Readings of time::precise_time_ns() at construction.
StartTimes == {1000000000}

\* Board::new_test_board(): the grid, indexed board[j][i] with j the row
\* (0..height-1) and i the column (0..width-1).
AllOccupied == [j \in 0..(BoardH - 1) |-> [i \in 0..(BoardW - 1) |-> TRUE]]

Checker == [j \in 0..(BoardH - 1) |-> [i \in 0..(BoardW - 1) |-> (i + j) % 2 = 0]]

TestBoards == {AllOccupied, Checker}

BoardWidth(b) == Len([i \in 1..BoardW |-> b[0][i - 1]])

BoardHeight(b) == Cardinality(DOMAIN b)

\* ---------------------------------------------------------------- state
VARIABLES
    pc,               \* main's position: "handle_input", "events" (inside the
                      \* for loop of handle_input), "update", "render", "stopped"
    time_factor,      \* GameState.time_factor
    time_last_frame,  \* GameState.time_last_frame
    board,            \* GameState.board
    camera_center,    \* GameState.camera_center
    camera_zoom,      \* GameState.camera_zoom
    held_keys,        \* GameState.held_keys
    waiting,          \* events the poll_events() iterator has still to produce
    closing,          \* whether a Closed event is among them
    handled,          \* events the for loop has taken from it in this call
    event,            \* the for loop's variable: the event taken last
    action,           \* the Action handle_input returned last
    camera_direction, \* update's local camera_direction (zero before update runs)
    drawn,            \* the quads of the frame render has just finished
    delivered,        \* events taken from the window since construction
    polls,            \* calls of handle_input so far
    updates,          \* calls of update so far
    renders,          \* calls of render so far
    right_run         \* history: the latest updates whose camera_direction was
                      \* (1, 0): how many in a row (n), and camera_center.x
                      \* (x0) and time_last_frame (t0) before the first of them

vars == <<pc, time_factor, time_last_frame, board, camera_center, camera_zoom,
          held_keys, waiting, closing, handled, event, action, camera_direction, drawn,
          delivered, polls, updates, renders, right_run>>

\* ------------------------------------------------------- pure functions
\* interpolate_linear with start and end exchanged.
interpolate_swapped(start, end, amount) ==
    end + ((start - end) * amount) \div ZoomOne

interpolate_linear(start, end, amount) ==
    start + ((end - start) * amount) \div ZoomOne

\* clamp with the test against max forgotten.
clamp_no_max(val, min, max) ==
    IF val < min THEN min ELSE val

clamp(val, min, max) ==
    IF val < min THEN min
    ELSE IF val > max THEN max
    ELSE val

is_key_held(held, key) == key \in held

\* get_key_direction letting the positive key win when both are held.
get_key_direction_positive_wins(held, positive, negative) ==
    IF is_key_held(held, positive) THEN 1
    ELSE IF is_key_held(held, negative) THEN -1
    ELSE 0

get_key_direction(held, positive, negative) ==
    CASE is_key_held(held, positive) /\ ~is_key_held(held, negative) -> 1
      [] ~is_key_held(held, positive) /\ is_key_held(held, negative) -> -1
      [] OTHER -> 0

\* (time - time_last_frame) as f32 * units::NS_TO_S, in 1/600 s: ns * 600 / 10^9,
\* written so that no intermediate value leaves 32 bits.
NsToS(ns) == (ns \div 5000000) * 3 + ((ns % 5000000) * 3) \div 5000000

\* The MouseWheel arm with the clamp forgotten.
ScrollZoomUnclamped(zoom, scroll_amount) ==
    zoom + (scroll_amount * ZOOM_STEP) \div LineUnit

\* The MouseWheel arm of handle_input.
ScrollZoom(zoom, scroll_amount) ==
    clamp(zoom + (scroll_amount * ZOOM_STEP) \div LineUnit, 0, ZoomOne)

\* The KeyboardInput(Pressed, _, Some(key)) arm of handle_input.
KeyPressed(held, key) == held \cup {key}

\* The Released arm with the removal forgotten.
KeyReleasedKeeps(held, key) == held

\* The KeyboardInput(Released, _, Some(key)) arm of handle_input.
KeyReleased(held, key) == held \ {key}

\* main with the result of handle_input dropped: the loop never breaks.
MainMatchNeverBreaks(act) == "update"

\* main with the call of update left out: handle_input, then render.
MainMatchSkipsUpdate(act) == IF act = "Stop" THEN "stopped" ELSE "render"

\* main breaking out of the loop whatever handle_input returned.
MainMatchAlwaysBreaks(act) == "stopped"

\* main's match on the Action handle_input returned: break, or go on to
\* update.
MainMatch(act) == IF act = "Stop" THEN "stopped" ELSE "update"

\* update's camera_direction with the positive key winning on each axis.
KeyDirectionPositiveWins(held) ==
    [x |-> IF "Right" \in held THEN 1 ELSE IF "Left" \in held THEN -1 ELSE 0,
     y |-> IF "Up" \in held THEN 1 ELSE IF "Down" \in held THEN -1 ELSE 0]

\* update's camera_direction.
KeyDirection(held) ==
    [x |-> get_key_direction(held, "Right", "Left"),
     y |-> get_key_direction(held, "Up", "Down")]

\* The frame step at the speed of the earlier revision (camera_speed = 5.0).
FrameStepSpeed5(tf) == 5 * tf

\* A frame step that takes every frame to last 1/60 s.
FrameStepAssumes60Fps(tf) == CAMERA_SPEED * (CellUnit \div 60)

\* CAMERA_SPEED * self.time_factor
FrameStep(tf) == CAMERA_SPEED * tf

\* normalize_to scaling the vector by length without dividing by its norm.
NormalizeToKeepsNorm(v, length) == [x |-> v.x * length, y |-> v.y * length]

\* cgmath's Vector2::normalize_to(length) on a vector with components in
\* {-1, 0, 1}: the vector scaled by length / |v|, |v| being 1 on an axis and
\* sqrt(2) on a diagonal (1/sqrt(2) taken as 7071/10000).
NormalizeTo(v, length) ==
    IF v.x # 0 /\ v.y # 0
    THEN [x |-> v.x * ((length * 7071) \div 10000),
          y |-> v.y * ((length * 7071) \div 10000)]
    ELSE [x |-> v.x * length, y |-> v.y * length]

\* The camera step of update.
Advance(center, direction, tf) ==
    IF direction # [x |-> 0, y |-> 0]
    THEN LET step == NormalizeTo(direction, FrameStep(tf)) IN
         [x |-> center.x + step.x, y |-> center.y + step.y]
    ELSE center

\* draw_quad with `zoom = ..` for `zoom *= ..`: the caller's zoom is lost and
\* every quad is drawn at 1.0 times the scale.
DrawQuadZoomOverwritten(czoom, x, y, radius, zoom, shade) ==
    LET z == 10 * interpolate_linear(ZOOM_MIN, ZOOM_MAX, czoom) IN
    [tl |-> <<(x - radius) * z, (y - radius) * z>>,
     br |-> <<(x + radius) * z, (y + radius) * z>>,
     shade |-> shade]

\* draw_quad: the two corners it builds the six vertices from, and the shade.
DrawQuad(czoom, x, y, radius, zoom, shade) ==
    LET z == zoom * interpolate_linear(ZOOM_MIN, ZOOM_MAX, czoom) IN
    [tl |-> <<(x - radius) * z, (y - radius) * z>>,
     br |-> <<(x + radius) * z, (y + radius) * z>>,
     shade |-> shade]

\* The inner loop of render: column i, rows j .. height-1.
RECURSIVE RenderColumn(_, _, _, _, _)
RenderColumn(b, center, czoom, i, j) ==
    IF j >= BoardHeight(b) THEN <<>>
    ELSE (IF b[j][i]
          THEN <<DrawQuad(czoom, i * CellUnit - center.x, j * CellUnit - center.y,
                          RADIUS, 10, 10)>>
          ELSE <<>>)
         \o RenderColumn(b, center, czoom, i, j + 1)

\* The outer loop of render: columns i .. width-1.
RECURSIVE RenderCells(_, _, _, _)
RenderCells(b, center, czoom, i) ==
    IF i >= BoardWidth(b) THEN <<>>
    ELSE RenderColumn(b, center, czoom, i, 0) \o RenderCells(b, center, czoom, i + 1)

\* render drawing the camera marker before the cells.
RenderQuadsMarkerFirst(b, center, czoom) ==
    <<DrawQuad(czoom, 0, 0, RADIUS, 1, 5)>> \o RenderCells(b, center, czoom, 0)

\* Everything render draws: the cells, then the camera marker.
RenderQuads(b, center, czoom) ==
    RenderCells(b, center, czoom, 0) \o <<DrawQuad(czoom, 0, 0, RADIUS, 1, 5)>>

\* No update with camera_direction (1, 0) has just run.
NoRun == [n |-> 0, x0 |-> 0, t0 |-> 0]

\* The history of updates to the right after one more update, which found
\* the keys held, the camera at center and the last frame at time last.
RunAfter(run, held, center, last) ==
    IF get_key_direction(held, "Right", "Left") = 1
       /\ get_key_direction(held, "Up", "Down") = 0
    THEN IF run.n = 0
         THEN [n |-> 1, x0 |-> center.x, t0 |-> last]
         ELSE [run EXCEPT !.n = run.n + 1]
    ELSE NoRun

\* ----------------------------------------------------------------- Init
\* GameState::new(), and main about to enter its loop.
Init ==
    /\ pc = "handle_input"
    /\ time_factor = CellUnit \div 60
    /\ time_last_frame \in StartTimes
    /\ board \in TestBoards
    /\ camera_center = [x |-> 4 * CellUnit, y |-> 2 * CellUnit]
    /\ camera_zoom = ZOOM_DEFAULT
    /\ held_keys = {}
    /\ waiting = 0
    /\ closing = FALSE
    /\ handled = 0
    /\ event = NoEvent
    /\ action = "None"
    /\ camera_direction = [x |-> 0, y |-> 0]
    /\ drawn = <<>>
    /\ delivered = 0
    /\ polls = 0
    /\ updates = 0
    /\ renders = 0
    /\ right_run = NoRun

\* -------------------------------------------------------------- actions
\* What no step of handle_input touches.
InputFrame ==
    UNCHANGED <<time_factor, time_last_frame, board, camera_center,
                updates, renders, right_run>>

\* main calls game.handle_input(), which calls self.display.poll_events():
\* the iterator holds some of the MaxEvents events of the behaviour.  The
\* locals of the previous iteration (update's camera_direction, the frame
\* render drew into) are gone by now.
PollEvents ==
    /\ pc = "handle_input"
    /\ polls < MaxFrames
    /\ waiting' \in 0..(MaxEvents - delivered)
    /\ closing' \in {c \in BOOLEAN : c => waiting' > 0}
    /\ camera_direction' = [x |-> 0, y |-> 0]
    /\ handled' = 0
    /\ event' = NoEvent
    /\ polls' = polls + 1
    /\ drawn' = <<>>
    /\ pc' = "events"
    /\ UNCHANGED <<held_keys, camera_zoom, action, delivered>>
    /\ InputFrame

\* The for loop takes the next event e from the iterator: a Closed event
\* if one is there and it is e's turn, the first such event at the latest
\* when nothing else is left.
TakeEvent(e) ==
    /\ pc = "events"
    /\ waiting > 0
    /\ IF e.type = "Closed" THEN closing ELSE (closing => waiting > 1)
    /\ closing' = (closing /\ e.type # "Closed")
    /\ waiting' = waiting - 1
    /\ handled' = handled + 1
    /\ event' = e
    /\ delivered' = delivered + 1
    /\ UNCHANGED <<polls, drawn, camera_direction>>
    /\ InputFrame

\* Closed => return Action::Stop
EventClosed ==
    /\ \E e \in Events : e.type = "Closed" /\ TakeEvent(e)
    /\ action' = "Stop"
    /\ pc' = MainMatch(action')
    /\ UNCHANGED <<held_keys, camera_zoom>>

\* KeyboardInput(Pressed, _, Some(key))
EventPressed ==
    /\ \E e \in Events :
         /\ e.type = "Pressed"
         /\ TakeEvent(e)
         /\ held_keys' = KeyPressed(held_keys, e.key)
    /\ UNCHANGED <<pc, camera_zoom, action>>

\* KeyboardInput(Released, _, Some(key))
EventReleased ==
    /\ \E e \in Events :
         /\ e.type = "Released"
         /\ TakeEvent(e)
         /\ held_keys' = KeyReleased(held_keys, e.key)
    /\ UNCHANGED <<pc, camera_zoom, action>>

\* The MouseWheel arm letting go of the held keys as well.
EventMouseWheelDropsKeys ==
    /\ \E e \in Events :
         /\ e.type = "MouseWheel"
         /\ TakeEvent(e)
         /\ camera_zoom' = ScrollZoom(camera_zoom, e.amount)
    /\ held_keys' = {}
    /\ UNCHANGED <<pc, action>>

\* MouseWheel(LineDelta(_, scroll_amount))
EventMouseWheel ==
    /\ \E e \in Events :
         /\ e.type = "MouseWheel"
         /\ TakeEvent(e)
         /\ camera_zoom' = ScrollZoom(camera_zoom, e.amount)
    /\ UNCHANGED <<pc, held_keys, action>>

\* _ => {}
EventOther ==
    /\ \E e \in Events : e.type = "MouseMoved" /\ TakeEvent(e)
    /\ UNCHANGED <<pc, held_keys, camera_zoom, action>>

\* The iterator is exhausted: handle_input returns Action::None.
EventsExhausted ==
    /\ pc = "events"
    /\ waiting = 0
    /\ action' = "None"
    /\ pc' = MainMatch(action')
    /\ UNCHANGED <<held_keys, camera_zoom, waiting, closing, handled, event, polls,
                   drawn, delivered, camera_direction>>
    /\ InputFrame

\* game.update()
Update ==
    /\ pc = "update"
    /\ \E dt \in FrameDeltas :
         LET time == time_last_frame + dt IN
         /\ time_factor' = NsToS(time - time_last_frame)
         /\ time_last_frame' = time
    /\ camera_direction' = KeyDirection(held_keys)
    /\ camera_center' = Advance(camera_center, camera_direction', time_factor')
    /\ right_run' = RunAfter(right_run, held_keys, camera_center, time_last_frame)
    /\ updates' = updates + 1
    /\ handled' = 0
    /\ event' = NoEvent
    /\ pc' = "render"
    /\ UNCHANGED <<board, camera_zoom, held_keys, waiting, closing, action, drawn,
                   delivered, polls, renders>>

\* game.render()
Render ==
    /\ pc = "render"
    /\ drawn' = RenderQuads(board, camera_center, camera_zoom)
    /\ renders' = renders + 1
    /\ pc' = "handle_input"
    /\ UNCHANGED <<time_factor, time_last_frame, board, camera_center, camera_zoom,
                   held_keys, waiting, closing, handled, event, action,
                   camera_direction, delivered, polls, updates, right_run>>

Next ==
    \/ PollEvents
    \/ EventClosed
    \/ EventPressed
    \/ EventReleased
    \/ EventMouseWheel
    \/ EventOther
    \/ EventsExhausted
    \/ Update
    \/ Render

Spec == Init /\ [][Next]_vars

\* The loop of main keeps running: every step of it is a call that returns.
\* Whether it ends does not depend on the board, so one board is followed.
FairInit == Init /\ board = Checker

FairSpec == FairInit /\ [][Next]_vars /\ WF_vars(Next)

TypeOK ==
    /\ pc \in {"handle_input", "events", "update", "render", "stopped"}
    /\ held_keys \subseteq Keys
    /\ action \in {"None", "Stop"}
    /\ waiting \in 0..MaxEvents
    /\ closing \in BOOLEAN
    /\ closing => waiting > 0
    /\ handled \in 0..MaxEvents
    /\ event \in Events \cup {NoEvent}

\* ------------------------------------------------- vocabulary of the claims
Max(a, b) == IF a >= b THEN a ELSE b

Min(a, b) == IF a <= b THEN a ELSE b

KeyEvent(type, key) == [type |-> type, key |-> key, amount |-> 0]

Scroll(amount) == [type |-> "MouseWheel", key |-> "-", amount |-> amount]

\* handle_input has just returned Action::None.
InputDone == pc = "update"

\* This step is the for loop of handle_input taking an event (event').
TakesEvent == pc = "events" /\ handled' = handled + 1

\* This step is a call of update.
Updates == pc = "update" /\ pc' = "render"

\* render has just finished a frame.
Rendered == pc = "handle_input" /\ renders > 0

\* One clamped zoom step as the claims state it.
ExpectedZoom(z, scroll_amount) ==
    Max(0, Min(ZoomOne, z + (scroll_amount * ZOOM_STEP) \div LineUnit))

\* The direction the claims expect on one axis.
ExpectedDirection(held, positive, negative) ==
    IF positive \in held /\ negative \notin held THEN 1
    ELSE IF negative \in held /\ positive \notin held THEN -1
    ELSE 0

\* ------------------------------------------------------------------- C1
\* C1: in every reachable state camera_zoom is in [0.0, 1.0], whatever
\* scroll events, key events and update/render calls came before.
C1_ZoomInUnitRange == camera_zoom >= 0 /\ camera_zoom <= ZoomOne

\* A scroll of fifteen lines in was clamped to 1.0.
C1_Witness ==
    /\ InputDone
    /\ event = Scroll(150)
    /\ camera_zoom = ZoomOne

\* ------------------------------------------------------------------- C2
\* C2: every scroll event s_k that handle_input takes sets the zoom to
\* clamp(z_(k-1) + s_k * ZOOM_STEP, 0.0, 1.0), and no other step changes the
\* zoom, so a poll leaves the left fold of its scroll events; from a
\* saturated zoom a scroll the same way leaves it saturated, and a scroll of
\* one line the other way moves it by exactly ZOOM_STEP (1.0 -> 0.9,
\* 0.0 -> 0.1).
C2_ClampedEachStep ==
    [][IF TakesEvent /\ event'.type = "MouseWheel"
       THEN LET s == event'.amount IN
            /\ camera_zoom' = ExpectedZoom(camera_zoom, s)
            /\ (camera_zoom = ZoomOne /\ s > 0) => camera_zoom' = ZoomOne
            /\ (camera_zoom = 0 /\ s < 0) => camera_zoom' = 0
            /\ (camera_zoom = ZoomOne /\ s = -LineUnit)
                 => camera_zoom' = ZoomOne - ZOOM_STEP
            /\ (camera_zoom = 0 /\ s = LineUnit) => camera_zoom' = ZOOM_STEP
       ELSE camera_zoom' = camera_zoom
    ]_vars

\* The second event of the first poll was a scroll of one line out and left
\* the zoom at 0.9: the first was fifteen lines in from 0.3, and the
\* overshoot beyond 1.0 was not kept.
C2_Witness ==
    /\ InputDone
    /\ polls = 1
    /\ handled = 2
    /\ event = Scroll(-LineUnit)
    /\ camera_zoom = ZoomOne - ZOOM_STEP

\* ------------------------------------------------------------------- C3
\* C3: get_key_direction(positive, negative) is 1 when only the positive
\* key is held, -1 when only the negative key is held, 0 when both or
\* neither are, for (Right, Left) and for (Up, Down), and that is the
\* camera_direction update computes.
C3_SymmetricCancellation ==
    /\ get_key_direction(held_keys, "Right", "Left")
         = ExpectedDirection(held_keys, "Right", "Left")
    /\ get_key_direction(held_keys, "Up", "Down")
         = ExpectedDirection(held_keys, "Up", "Down")
    /\ pc = "render" =>
         /\ camera_direction.x = ExpectedDirection(held_keys, "Right", "Left")
         /\ camera_direction.y = ExpectedDirection(held_keys, "Up", "Down")

\* update ran with Right and Left both held and Up alone held.
C3_Witness ==
    /\ pc = "render"
    /\ held_keys = {"Right", "Left", "Up"}
    /\ camera_direction = [x |-> 0, y |-> 1]

\* ------------------------------------------------------------------- C4
\* C4: a press taken by handle_input leaves exactly the keys held before
\* plus the pressed one, a release exactly the keys held before minus the
\* released one, and no other step (another event, the end of the poll,
\* update, render) changes the held-key set: the set is the keys whose
\* most recent key event is a press.
C4_HeldIsLastPressed ==
    [][\A key \in Keys :
         key \in held_keys' <=>
           IF TakesEvent /\ event'.type \in {"Pressed", "Released"} /\ event'.key = key
           THEN event'.type = "Pressed"
           ELSE key \in held_keys
    ]_vars

\* After the second poll, whose second event released Space, Space is not
\* held while Right, held when the first update moved the camera to the
\* right, still is.
C4_Witness ==
    /\ InputDone
    /\ polls = 2
    /\ handled = 2
    /\ event = KeyEvent("Released", "Space")
    /\ camera_center.x > 4 * CellUnit
    /\ held_keys = {"Right"}

C6_FirstStepUsesSeed ==
    (pc = "render" /\ updates = 1) =>
        camera_center = Advance([x |-> 4 * CellUnit, y |-> 2 * CellUnit],
                                camera_direction, CellUnit \div 60)

\* ------------------------------------------------------------------- C7
\* C7: an update with key direction (1, 0) and a frame delta of d seconds
\* adds exactly CAMERA_SPEED * d to camera_center.x and leaves
\* camera_center.y alone, 1.0 cell for d = 0.25 s; likewise for (-1, 0),
\* (0, 1) and (0, -1).
C7_AxisStepExact ==
    [][Updates =>
        LET dx == ExpectedDirection(held_keys, "Right", "Left")
            dy == ExpectedDirection(held_keys, "Up", "Down")
            d == time_factor'
            ns == time_last_frame' - time_last_frame
        IN /\ (dx # 0 /\ dy = 0) =>
                /\ camera_center'.x = camera_center.x + dx * CAMERA_SPEED * d
                /\ camera_center'.y = camera_center.y
           /\ (dx = 0 /\ dy # 0) =>
                /\ camera_center'.x = camera_center.x
                /\ camera_center'.y = camera_center.y + dy * CAMERA_SPEED * d
           /\ (dx = 1 /\ dy = 0 /\ ns = 250000000) =>
                camera_center'.x = camera_center.x + CellUnit
    ]_vars

\* The first update ran with Right alone held and a quarter of a second on
\* the clock, and moved the camera from (4, 2) to (5, 2).
C7_Witness ==
    /\ pc = "render"
    /\ updates = 1
    /\ held_keys = {"Right"}
    /\ time_factor = CellUnit \div 4
    /\ camera_center = [x |-> 5 * CellUnit, y |-> 2 * CellUnit]

\* ------------------------------------------------------------------- C8
\* C8: an update whose key direction is the zero vector (no arrow key held,
\* or every held arrow key cancelled by its opposite) leaves camera_center
\* unchanged, whatever the frame delta.
C8_ZeroDirectionNoMove ==
    [][(/\ Updates
        /\ ExpectedDirection(held_keys, "Right", "Left") = 0
        /\ ExpectedDirection(held_keys, "Up", "Down") = 0)
       => camera_center' = camera_center
    ]_vars

\* The first update ran with Right and Left both held and a quarter of a
\* second on the clock, and the camera is still at (4, 2).
C8_Witness ==
    /\ pc = "render"
    /\ updates = 1
    /\ held_keys = {"Right", "Left"}
    /\ time_factor = CellUnit \div 4
    /\ camera_center = [x |-> 4 * CellUnit, y |-> 2 * CellUnit]

\* ------------------------------------------------------------------- C9
\* The occupied cells of the board, as (column, row).
Occupied ==
    {c \in (0..(BoardW - 1)) \X (0..(BoardH - 1)) : board[c[2]][c[1]]}

\* Twice the center of a quad.
QuadCenter2(q) == <<q.tl[1] + q.br[1], q.tl[2] + q.br[2]>>

\* Twice the position at which the claims expect the quad of cell c.
CellCenter2(c) ==
    LET s == 10 * (ZOOM_MIN + ((ZOOM_MAX - ZOOM_MIN) * camera_zoom) \div ZoomOne) IN
    <<2 * (c[1] * CellUnit - camera_center.x) * s,
      2 * (c[2] * CellUnit - camera_center.y) * s>>

\* The frame holds one quad of shade 1.0 for each occupied cell and none
\* for the others, then the camera marker (shade 0.5), last.
OnePerCellThenMarker ==
    LET n == Cardinality(Occupied) IN
    /\ Len(drawn) = n + 1
    /\ \A k \in 1..n : drawn[k].shade = 10
    /\ {QuadCenter2(drawn[k]) : k \in 1..n} = {CellCenter2(c) : c \in Occupied}
    /\ drawn[n + 1].shade = 5

\* C9 as stated: one quad per occupied cell, the marker last, and no two
\* of the quads of the frame have the same center.
C9_AllCentersDistinct ==
    Rendered =>
        /\ OnePerCellThenMarker
        /\ \A a, b \in 1..Len(drawn) :
             a # b => QuadCenter2(drawn[a]) # QuadCenter2(drawn[b])

\* C9: one render emits one quad for each occupied cell, none for the
\* others, then the camera marker, last; no two cell quads have the same
\* center; the marker is centered at the origin, which is also the center
\* of a cell quad exactly when camera_center is at an occupied cell.
C9_OnePerCellThenMarker ==
    Rendered =>
        LET n == Cardinality(Occupied) IN
        /\ OnePerCellThenMarker
        /\ \A a, b \in 1..n :
             a # b => QuadCenter2(drawn[a]) # QuadCenter2(drawn[b])
        /\ QuadCenter2(drawn[n + 1]) = <<0, 0>>
        /\ (\E k \in 1..n : QuadCenter2(drawn[k]) = QuadCenter2(drawn[n + 1]))
             <=> (\E c \in Occupied : camera_center = [x |-> c[1] * CellUnit,
                                                        y |-> c[2] * CellUnit])

\* A frame of the fully occupied board with the camera on cell (3, 2): one
\* quad per cell and the marker, which has the center of that cell's quad.
C9_Witness ==
    /\ Rendered
    /\ board = AllOccupied
    /\ camera_center = [x |-> 3 * CellUnit, y |-> 2 * CellUnit]
    /\ Len(drawn) = BoardW * BoardH + 1
    /\ \E k \in 1..(BoardW * BoardH) :
         QuadCenter2(drawn[k]) = QuadCenter2(drawn[Len(drawn)])

\* ------------------------------------------------------------------ C10
\* C10: the scale factor interpolate_linear(ZOOM_MIN, ZOOM_MAX, camera_zoom)
\* is non-decreasing in the zoom, lies in [ZOOM_MIN, ZOOM_MAX] and so is
\* positive in every reachable state, and is the scale render draws with.
C10_ScaleMonotoneBounded ==
    LET s == interpolate_linear(ZOOM_MIN, ZOOM_MAX, camera_zoom) IN
    /\ ZOOM_MIN <= s /\ s <= ZOOM_MAX
    /\ s > 0
    /\ \A z \in 0..ZoomOne :
         /\ z <= camera_zoom => interpolate_linear(ZOOM_MIN, ZOOM_MAX, z) <= s
         /\ z >= camera_zoom => interpolate_linear(ZOOM_MIN, ZOOM_MAX, z) >= s
    /\ Rendered =>
         LET marker == drawn[Len(drawn)] IN
         /\ marker.br[1] - marker.tl[1] = 2 * RADIUS * s
         /\ marker.br[1] > marker.tl[1]

\* A frame drawn fully zoomed out, at the scale ZOOM_MIN.
C10_Witness ==
    /\ Rendered
    /\ camera_zoom = 0
    /\ drawn[Len(drawn)].br[1] = RADIUS * ZOOM_MIN

PointerMoved == [type |-> "MouseMoved", key |-> "-", amount |-> 0]

\* The fields of GameState that hold input state or anything derived from
\* input.
InputState == <<held_keys, camera_zoom, camera_center, time_factor, time_last_frame>>

\* C12 as stated: the pointer position is absent before any pointer-move
\* event and present, equal to the event's position, once handle_input has
\* taken one; so the very first event being a pointer-move changes what the
\* game records.
C12_PointerRecorded ==
    [][(TakesEvent /\ delivered = 0 /\ event' = PointerMoved)
         => InputState' # InputState
    ]_vars

\* ------------------------------------------------------------------ C13
\* d, in 1/600 s, is ns nanoseconds divided by 1e9 (rounded down to the unit).
IsSeconds(d, ns) ==
    LET us == ns \div 1000 IN d * 5000 <= 3 * us /\ 3 * us < (d + 1) * 5000

C14_StepIsDirectionTimesSpeed ==
    [][Updates =>
        LET dx == ExpectedDirection(held_keys, "Right", "Left")
            dy == ExpectedDirection(held_keys, "Up", "Down")
        IN (dx # 0 \/ dy # 0) =>
             /\ camera_center'.x = camera_center.x + dx * CAMERA_SPEED * time_factor'
             /\ camera_center'.y = camera_center.y + dy * CAMERA_SPEED * time_factor'
    ]_vars

\* C14: an update with nonzero key direction (dx, dy) moves camera_center by
\* that direction normalised to the length L = CAMERA_SPEED * delta_seconds:
\* by (dx, dy) * L when one of dx, dy is zero, and by (dx, dy) * L / sqrt(2)
\* when two perpendicular arrow keys are held, so that x and y each change
\* by L / sqrt(2) in magnitude (m below, L / sqrt(2) rounded down).
C14_StepIsNormalized ==
    [][Updates =>
        LET dx == ExpectedDirection(held_keys, "Right", "Left")
            dy == ExpectedDirection(held_keys, "Up", "Down")
            L == CAMERA_SPEED * time_factor'
        IN /\ ((dx # 0 /\ dy = 0) \/ (dx = 0 /\ dy # 0)) =>
                /\ camera_center'.x = camera_center.x + dx * L
                /\ camera_center'.y = camera_center.y + dy * L
           /\ (dx # 0 /\ dy # 0) =>
                \E m \in 0..L :
                  /\ 2 * m * m <= L * L
                  /\ L * L < 2 * (m + 1) * (m + 1)
                  /\ camera_center'.x = camera_center.x + dx * m
                  /\ camera_center'.y = camera_center.y + dy * m
    ]_vars

\* The first update ran with Right and Down held and a quarter of a second
\* on the clock: a step of length 1.0 cell, 424/600 of a cell to the right
\* and as much down.
C14_Witness ==
    /\ pc = "render"
    /\ updates = 1
    /\ held_keys = {"Right", "Down"}
    /\ time_factor = CellUnit \div 4
    /\ camera_center = [x |-> 4 * CellUnit + 424, y |-> 2 * CellUnit - 424]

ScaleFactor == ZOOM_MIN + ((ZOOM_MAX - ZOOM_MIN) * camera_zoom) \div ZoomOne

\* Twice the half-extent of a quad, on x and on y.
QuadExtent2(q) == <<q.br[1] - q.tl[1], q.br[2] - q.tl[2]>>

\* Quad q is centered at (cx, cy) * s and has half-extent h * s, for cx, cy
\* in 1/600 cell and h in 1/6000 cell.
QuadIs(q, cx, cy, h) ==
    /\ QuadCenter2(q) = <<2 * cx * 10 * ScaleFactor, 2 * cy * 10 * ScaleFactor>>
    /\ QuadExtent2(q) = <<2 * h * ScaleFactor, 2 * h * ScaleFactor>>

\* C16: in the frame render has drawn, the quad of every occupied cell
\* (i, j) is centered at ((i - camera_center.x) * s, (j - camera_center.y) * s)
\* and has half-extent 0.47 * s, every quad but the last is such a quad, a
\* cell at the camera center is drawn at the origin, and the last quad, the
\* camera marker, is centered at the origin with half-extent 0.47 * 0.1 * s.
C16_QuadGeometry ==
    Rendered =>
        LET n == Len(drawn) - 1 IN
        /\ n >= 0
        /\ \A c \in Occupied :
             \E k \in 1..n :
               /\ QuadIs(drawn[k], c[1] * CellUnit - camera_center.x,
                         c[2] * CellUnit - camera_center.y, 10 * RADIUS)
               /\ (c[1] * CellUnit = camera_center.x /\ c[2] * CellUnit = camera_center.y)
                    => QuadCenter2(drawn[k]) = <<0, 0>>
        /\ \A k \in 1..n :
             \E c \in Occupied :
               QuadIs(drawn[k], c[1] * CellUnit - camera_center.x,
                      c[2] * CellUnit - camera_center.y, 10 * RADIUS)
        /\ QuadIs(drawn[n + 1], 0, 0, RADIUS)

\* A frame drawn at zoom 0.4 with the camera on the occupied cell (3, 2),
\* a quarter of a second to the left of where it started: that cell's quad
\* is centered at the origin, as the marker is, and ten times as wide.
C16_Witness ==
    /\ Rendered
    /\ camera_zoom = ZOOM_DEFAULT + ZOOM_STEP
    /\ camera_center = [x |-> 3 * CellUnit, y |-> 2 * CellUnit]
    /\ \E k \in 1..(Len(drawn) - 1) :
         /\ QuadCenter2(drawn[k]) = <<0, 0>>
         /\ QuadExtent2(drawn[k])[1] = 10 * QuadExtent2(drawn[Len(drawn)])[1]
         /\ QuadExtent2(drawn[k])[1]
              = 2 * RADIUS * 10 * (ZOOM_MIN + ((ZOOM_MAX - ZOOM_MIN) * 2) \div 5)

\* ------------------------------------------------------------------ C17
\* This step belongs to a call of handle_input.
InHandleInput == pc \in {"handle_input", "events"}

\* This step is a call of render.
Renders == pc = "render" /\ pc' = "handle_input"

\* C17: a step of handle_input changes no field but held_keys and
\* camera_zoom, a key event leaves camera_zoom and a scroll event held_keys
\* alone; update changes no field but time_factor, time_last_frame and
\* camera_center; render changes none of the five; no step changes the
\* board.
C17_StepsKeepTheirFrame ==
    [][/\ InHandleInput =>
            UNCHANGED <<camera_center, time_factor, time_last_frame>>
       /\ (TakesEvent /\ event'.type \in {"Pressed", "Released"}) =>
            camera_zoom' = camera_zoom
       /\ (TakesEvent /\ event'.type = "MouseWheel") =>
            held_keys' = held_keys
       /\ Updates => UNCHANGED <<camera_zoom, held_keys>>
       /\ Renders => UNCHANGED <<camera_center, camera_zoom, held_keys,
                                 time_factor, time_last_frame>>
       /\ board' = board
    ]_vars

\* After one whole iteration each step has left its mark and no other:
\* handle_input took Up pressed and a scroll of one line out, update moved
\* the camera one cell up in a quarter of a second, render drew the frame.
C17_Witness ==
    /\ pc = "handle_input"
    /\ polls = 1 /\ updates = 1 /\ renders = 1
    /\ held_keys = {"Up"}
    /\ camera_zoom = ZOOM_DEFAULT - ZOOM_STEP
    /\ camera_center = [x |-> 4 * CellUnit, y |-> 3 * CellUnit]
    /\ time_factor = CellUnit \div 4
    /\ time_last_frame - 250000000 \in StartTimes
    /\ Len(drawn) > 0

=============================================================================
